---- MODULE Spec2Model ----
(***************************************************************************)
(* The pit auto-archival scheduler of cogs/hideout/pits.py                 *)
(* (PitsManagement.auto_archival) together with the pit commands and the  *)
(* member listeners that write the pits table, modelled as a state        *)
(* machine.  The tasks.Loop object that runs auto_archival is modelled by  *)
(* the number of tasks it has launched and the restart callbacks pending.  *)
(*                                                                         *)
(* Time is in seconds.  Timestamps are integers; a nullable column or an   *)
(* Optional value is the empty sequence (None) or a one-element sequence.  *)
(* The pits table is a sequence of rows in the order SELECT returns them.  *)
(* Channel ids are never reused, as Discord snowflakes are not.            *)
(* Every channel a pit id can resolve to is a text channel, so the         *)
(* `not isinstance(pit, discord.TextChannel)` disjuncts coincide with      *)
(* `pit is None`.  Timestamps of the table and datetime.now() are compared *)
(* as plain instants.  A command that is refused (a raised BadArgument,    *)
(* a failed check) leaves every variable unchanged and is a stuttering     *)
(* step.                                                                   *)
(***************************************************************************)
EXTENDS Integers, Sequences, FiniteSets, TLC

\* ---------------------------------------------------------------- bounds
MaxChannels == 2      \* channel ids 1..MaxChannels
MaxMembers == 2       \* member ids 1..MaxMembers
MaxPasses == 3        \* auto_archival iterations explored
T0 == 2419200         \* clock value when the cog is constructed
NearOffset == 5       \* a timestamp / deadline shortly after T0
FarOffset == 50       \* a timestamp / deadline somewhat later
MaxEvents == 1        \* commands and Discord events explored
MaxRestarts == 2      \* pit setduration runs explored on their own

\* ------------------------------------------------------ program constants
TWENTY_FOUR_HOURS == 86400
THREE_DAYS == 259200
ONE_WEEK == 604800
ONE_MONTH == 2419200
BACKOFF_SECONDS == 60
LOOP_SECONDS == 1

ArchiveDuration == {TWENTY_FOUR_HOURS, THREE_DAYS, ONE_WEEK, ONE_MONTH}
ArchiveMode == {"leave", "inactive", "manual"}
NULL == "NULL"

None == <<>>
Some(x) == <<x>>

ChannelIds == 1..MaxChannels
Members == 1..MaxMembers

VARIABLES
    now,               \* the wall clock
    pits,              \* the pits table: a sequence of rows
    channels,          \* the guild's channel cache: id -> channel
    archive_category,  \* TRUE while the ARCHIVE_CATEGORY channel exists
    pc,                \* position of the auto_archival task
    NOW,               \* auto_archival local: NOW
    records,           \* auto_archival local: records
    shortest,          \* auto_archival local: shortest (None or Some(row))
    pit_ids_to_invalidate, \* auto_archival local
    scanned,           \* the records the pass read less those it deleted, and
                       \* the channels its record loop saw: None or Some(..)
    prev,              \* what the previous selection pass saw and selected
    shortened,         \* the last pit setduration that moved the deadline of
                       \* the pit the task was sleeping toward into the past
    wakeAt,            \* instant the pending asyncio.sleep / loop interval ends
                       \* (0 while no timer is set; the timer of a sleep that
                       \* restart() cancelled is kept until the task ends)
    passes,            \* number of iterations started
    events,            \* number of commands and Discord events so far
    guild_members,     \* the members currently in the guild
    loops,             \* auto_archival tasks launched and not done
    restarts,          \* restart_when_over callbacks waiting on the task
    reply,             \* what the last command answered ("" before any)
    log                \* auto_archival_log: <<level, pit_id>> lines

vars == <<now, pits, channels, archive_category, pc, NOW, records, shortest,
          pit_ids_to_invalidate, scanned, prev, shortened, wakeAt, passes, events,
          guild_members, loops, restarts, reply, log>>

locals == <<NOW, records, shortest, pit_ids_to_invalidate, scanned, prev>>

\* the tasks.Loop object of auto_archival
loop_object == <<loops, restarts>>

\* ------------------------------------------------------------- the store
Row(id, owner, duration, mode, lmsa) ==
    [pit_id |-> id, pit_owner |-> owner, archive_duration |-> duration,
     archive_mode |-> mode, last_message_sent_at |-> lmsa]

SeqFilterOut_KeepsAll(rows, ids) == rows

SeqFilterOut_HeadOnly(rows, ids) ==
    IF rows # <<>> /\ Head(rows).pit_id \in ids THEN Tail(rows) ELSE rows

RECURSIVE SeqFilterOut(_, _)
\* DELETE FROM pits WHERE pit_id IN ids
SeqFilterOut(rows, ids) ==
    IF rows = <<>> THEN <<>>
    ELSE IF Head(rows).pit_id \in ids
         THEN SeqFilterOut(Tail(rows), ids)
         ELSE <<Head(rows)>> \o SeqFilterOut(Tail(rows), ids)

RowIds(rows) == {rows[i].pit_id : i \in DOMAIN rows}
RowOwners(rows) == {rows[i].pit_owner : i \in DOMAIN rows}
RowOf(rows, id) == CHOOSE i \in DOMAIN rows : rows[i].pit_id = id
RowOfOwner(rows, m) == CHOOSE i \in DOMAIN rows : rows[i].pit_owner = m

\* ---------------------------------------------------------- the channels
\* category: "unused" (id not allocated yet), "pit" (PIT_CATEGORY),
\* "archive" (ARCHIVE_CATEGORY), "none" (no category), "deleted"
Channel(cat, last, created) ==
    [category |-> cat, last_message |-> last, created_at |-> created]

\* bot.get_channel(id) is not None
get_channel(chans, id) == chans[id].category \in {"pit", "archive", "none"}

\* pit in archive_category_found.text_channels
in_archive(chans, id) == chans[id].category = "archive"

\* _try_get_latest_message(text_channel): the created_at of the message, or None
try_get_latest_message(chans, id) == chans[id].last_message

\* ------------------------------------------- auto_archival: the record loop
Invalid_IgnoresMissingChannel(record, chans, N) ==
    \/ in_archive(chans, record.pit_id)
    \/ record.last_message_sent_at = None
    \/ record.last_message_sent_at[1] <= N

Invalid_OnlyMissing(record, chans, N) ==
    \/ ~get_channel(chans, record.pit_id)
    \/ record.last_message_sent_at = None

\* the condition of lines 83-89: the record goes to pit_ids_to_invalidate
Invalid(record, chans, N) ==
    \/ ~get_channel(chans, record.pit_id)
    \/ in_archive(chans, record.pit_id)
    \/ record.last_message_sent_at = None
    \/ record.last_message_sent_at[1] <= N

\* lines 98-106: the date the running shortest is compared by; the fallback
\* reads the channel of the record being visited
shortest_date(sh, record, chans) ==
    IF sh.last_message_sent_at # None
    THEN sh.last_message_sent_at[1]
    ELSE IF try_get_latest_message(chans, record.pit_id) # None
         THEN try_get_latest_message(chans, record.pit_id)[1]
         ELSE chans[record.pit_id].created_at

\* line 112: the visited record replaces the running shortest
Replaces(record, sh, chans) ==
    record.last_message_sent_at[1] < shortest_date(sh, record, chans)

RECURSIVE ScanLoop(_, _, _, _, _)
\* lines 77-113: for record in records
ScanLoop(recs, chans, N, sh, inval) ==
    IF recs = <<>>
    THEN [shortest |-> sh, invalidate |-> inval]
    ELSE LET record == Head(recs) IN
         IF Invalid(record, chans, N)
         THEN ScanLoop(Tail(recs), chans, N, sh, Append(inval, record.pit_id))
         ELSE IF sh = None
         THEN ScanLoop(Tail(recs), chans, N, Some(record), inval)
         ELSE IF Replaces(record, sh[1], chans)
         THEN ScanLoop(Tail(recs), chans, N, Some(record), inval)
         ELSE ScanLoop(Tail(recs), chans, N, sh, inval)

SeqToSet(s) == {s[i] : i \in DOMAIN s}

\* lines 126-135: the candidate's last activity, with the live fallback
candidate_date(sh, chans) ==
    IF sh.last_message_sent_at # None
    THEN sh.last_message_sent_at[1]
    ELSE IF try_get_latest_message(chans, sh.pit_id) # None
         THEN try_get_latest_message(chans, sh.pit_id)[1]
         ELSE chans[sh.pit_id].created_at

seconds_to_wait_NoDuration(sh, chans, N) ==
    candidate_date(sh, chans) - N

\* lines 140-143: seconds_to_wait
seconds_to_wait(sh, chans, N) ==
    candidate_date(sh, chans) + sh.archive_duration - N

BackoffUntil_NoSleep(t) == t

\* line 118: asyncio.sleep(60) started at t ends at
BackoffUntil(t) == t + BACKOFF_SECONDS

\* asyncio.sleep(d) returns at once when d <= 0
SleepUntil(t, d) == IF d <= 0 THEN t ELSE t + d

\* -------------------------------------------- auto_archival: the task steps
\* the iteration ends or is cancelled; a pass that got past its record loop
\* is remembered as the previous selection pass
ClearLocals ==
    /\ NOW' = 0
    /\ records' = <<>>
    /\ shortest' = None
    /\ pit_ids_to_invalidate' = <<>>
    /\ scanned' = None
    /\ prev' = IF scanned = None THEN prev
               ELSE Some([NOW |-> NOW, shortest |-> shortest,
                          invalidated |-> pit_ids_to_invalidate,
                          store |-> scanned[1].store,
                          channels |-> scanned[1].channels, log |-> log,
                          pc |-> pc, wakeAt |-> wakeAt, restarts |-> restarts])

\* lines 68-69: NOW is read and the SELECT returns
Fetch ==
    /\ UNCHANGED <<events, guild_members, loop_object, reply>>
    /\ pc = "start"
    /\ passes < MaxPasses
    /\ pc' = "fetched"
    /\ passes' = passes + 1
    /\ NOW' = now
    /\ records' = pits
    /\ UNCHANGED <<now, pits, channels, archive_category, shortest,
                   pit_ids_to_invalidate, scanned, prev, shortened, wakeAt, log>>

\* lines 70-115: category lookup, the record loop, the DELETE
Scan ==
    /\ UNCHANGED <<events, guild_members, restarts, reply>>
    /\ pc = "fetched"
    /\ IF ~archive_category
       THEN \* line 75: raise ActionNotExecutable ends the task
            /\ pc' = "failed"
            /\ loops' = loops - 1
            /\ UNCHANGED <<pits, shortest, pit_ids_to_invalidate, scanned>>
       ELSE LET r == ScanLoop(records, channels, NOW, None, <<>>) IN
            /\ pc' = "pruned"
            /\ UNCHANGED loops
            /\ shortest' = r.shortest
            /\ pit_ids_to_invalidate' = r.invalidate
            /\ pits' = SeqFilterOut(pits, SeqToSet(r.invalidate))
            /\ scanned' = Some([store |-> SeqFilterOut(records, SeqToSet(r.invalidate)),
                                 channels |-> channels])
    /\ UNCHANGED <<now, channels, archive_category, NOW, records, prev,
                   shortened, wakeAt, passes, log>>

\* tasks.loop(seconds=1): the next iteration is due LOOP_SECONDS after the
\* start of this one, which is when NOW was read
NextIteration == IF NOW + LOOP_SECONDS <= now
                 THEN now ELSE NOW + LOOP_SECONDS

\* lines 117-145: back off, return, or sleep toward the candidate
Decide ==
    /\ UNCHANGED <<events, guild_members, loop_object, reply>>
    /\ pc = "pruned"
    /\ IF shortest = None
       THEN /\ pc' = "backoff"
            /\ wakeAt' = BackoffUntil(now)
            /\ UNCHANGED locals
       ELSE IF ~get_channel(channels, shortest[1].pit_id)
       THEN \* line 124: return
            /\ pc' = "interval"
            /\ wakeAt' = NextIteration
            /\ ClearLocals
       ELSE /\ pc' = "waiting"
            /\ wakeAt' = SleepUntil(now, seconds_to_wait(shortest[1], channels, NOW))
            /\ UNCHANGED locals
    /\ UNCHANGED <<now, pits, channels, archive_category, shortened, passes, log>>

\* line 118: asyncio.sleep(60) returns, the iteration ends
BackoffDone ==
    /\ UNCHANGED <<events, guild_members, loop_object, reply>>
    /\ pc = "backoff"
    /\ now >= wakeAt
    /\ pc' = "interval"
    /\ wakeAt' = NextIteration
    /\ ClearLocals
    /\ UNCHANGED <<now, pits, channels, archive_category, shortened, passes, log>>

\* shortest_pit.edit(category=archive_category_found, sync_permissions=True)
EditToArchive(chans, id) ==
    [chans EXCEPT ![id].category = "archive"]

\* lines 147-152: the sleep is over, the candidate's channel is edited
Fire ==
    /\ UNCHANGED <<events, guild_members, restarts, reply>>
    /\ pc = "waiting"
    /\ now >= wakeAt
    /\ LET id == shortest[1].pit_id IN
       IF ~get_channel(channels, id) \/ ~archive_category
       THEN \* discord.NotFound / HTTPException is not caught: the task ends
            /\ pc' = "failed"
            /\ loops' = loops - 1
            /\ wakeAt' = 0
            /\ UNCHANGED <<channels, log, locals>>
       ELSE /\ UNCHANGED loops
            /\ \E forbidden \in BOOLEAN :
                 IF forbidden
                 THEN /\ log' = Append(log, <<"warn", id>>)
                      /\ UNCHANGED channels
                 ELSE /\ log' = Append(log, <<"info", id>>)
                      /\ channels' = EditToArchive(channels, id)
            /\ pc' = "interval"
            /\ wakeAt' = NextIteration
            /\ ClearLocals
    /\ UNCHANGED <<now, pits, archive_category, shortened,
                   passes>>

\* tasks.loop: the interval between two iterations is over
IntervalDone ==
    /\ UNCHANGED <<events, guild_members, loop_object, reply>>
    /\ pc = "interval"
    /\ now >= wakeAt
    /\ pc' = "start"
    /\ wakeAt' = 0
    /\ UNCHANGED <<now, pits, channels, archive_category, locals, shortened,
                   passes, log>>

start_Unchecked(n) == n + 1

\* Loop.start(): launch a task unless one is launched and not done
\* (RuntimeError('Task is already launched and is not completed.'))
start(n) == IF n > 0 THEN n ELSE n + 1

RECURSIVE restart_when_over(_, _)
\* the done callbacks that restart() registered run one after the other,
\* each calling start()
restart_when_over(n, callbacks) ==
    IF callbacks = 0 THEN n ELSE restart_when_over(start(n), callbacks - 1)

Restart_NoCancel == UNCHANGED <<pc, loop_object>>

\* auto_archival.restart(): register restart_when_over on the running task
\* and cancel it, which cancels the sleep or the store call it awaits; a
\* task that has already ended is left alone
Restart ==
    IF pc = "failed"
    THEN UNCHANGED <<pc, loop_object>>
    ELSE /\ pc' = "cancelling"
         /\ restarts' = restarts + 1
         /\ UNCHANGED loops

\* the cancelled task receives CancelledError at the await it is suspended
\* on and ends; its done callbacks launch the next task
Cancelled ==
    /\ UNCHANGED <<events, guild_members, reply>>
    /\ pc = "cancelling"
    /\ pc' = "start"
    /\ loops' = restart_when_over(loops - 1, restarts)
    /\ restarts' = 0
    /\ wakeAt' = 0
    /\ ClearLocals
    /\ UNCHANGED <<now, pits, channels, archive_category, shortened, passes, log>>

\* ----------------------------------------------------------- the commands
HasRow(id) == id \in RowIds(pits)
Owns(m) == m \in RowOwners(pits)

UnusedIds == {c \in ChannelIds : channels[c].category = "unused"}

\* pit create: the new channel gets the next free id
pit_create(owner) ==
    /\ events < MaxEvents
    /\ events' = events + 1
    /\ UNCHANGED <<guild_members, loop_object>>
    /\ reply' = "Created"
    /\ owner \in guild_members
    /\ UnusedIds # {}
    /\ ~(Owns(owner) /\ get_channel(channels, pits[RowOfOwner(pits, owner)].pit_id))
    /\ LET c == CHOOSE x \in UnusedIds : \A y \in UnusedIds : x <= y IN
       /\ channels' = [channels EXCEPT ![c] = Channel("pit", None, now)]
       /\ pits' = IF Owns(owner)
                  THEN \* ON CONFLICT (pit_owner) DO UPDATE SET pit_id = $1
                       [pits EXCEPT ![RowOfOwner(pits, owner)].pit_id = c]
                  ELSE Append(pits, Row(c, owner, THREE_DAYS, NULL, None))
    /\ UNCHANGED <<now, archive_category, pc, locals, shortened, wakeAt, passes, log>>

UniqueViolation_Never(rows, c, member) == FALSE

\* lines 342-353: the statement raises asyncpg.UniqueViolationError when the
\* member owns a row of another pit_id
UniqueViolation(rows, c, member) ==
    \E i \in DOMAIN rows : rows[i].pit_owner = member /\ rows[i].pit_id # c

\* pit setowner, run in channel c: the invoking message is the channel's
\* latest message
pit_set_owner(c, member) ==
    /\ events < MaxEvents
    /\ events' = events + 1
    /\ UNCHANGED <<guild_members, loop_object>>
    /\ get_channel(channels, c)
    /\ member \in guild_members
    /\ IF UniqueViolation(pits, c, member)
       THEN \* raise commands.BadArgument
            /\ pits' = pits
            /\ reply' = "This user is already the owner of a pit."
       ELSE /\ pits' = IF HasRow(c)
                       THEN \* ON CONFLICT (pit_id) DO UPDATE SET pit_owner = $2
                            [pits EXCEPT ![RowOf(pits, c)].pit_owner = member]
                       ELSE Append(pits, Row(c, member, THREE_DAYS, NULL, Some(now)))
            /\ reply' = "reaction"
    /\ channels' = [channels EXCEPT ![c].last_message = Some(now)]
    /\ UNCHANGED <<now, archive_category, pc, locals, shortened, wakeAt, passes, log>>

\* pit delete
pit_delete(c) ==
    /\ events < MaxEvents
    /\ events' = events + 1
    /\ UNCHANGED <<guild_members, loop_object>>
    /\ reply' = "Deleted"
    /\ get_channel(channels, c)
    /\ HasRow(c)
    /\ channels' = [channels EXCEPT ![c].category = "deleted"]
    /\ pits' = SeqFilterOut(pits, {c})
    /\ UNCHANGED <<now, archive_category, pc, locals, shortened, wakeAt, passes, log>>

\* pit archive
pit_archive(c) ==
    /\ events < MaxEvents
    /\ events' = events + 1
    /\ UNCHANGED <<guild_members, loop_object>>
    /\ reply' = "Archived"
    /\ get_channel(channels, c)
    /\ HasRow(c)
    /\ archive_category
    /\ channels' = [channels EXCEPT ![c].category = "archive"]
    /\ pits' = [pits EXCEPT ![RowOf(pits, c)].archive_mode = "manual"]
    /\ UNCHANGED <<now, archive_category, pc, locals, shortened, wakeAt, passes, log>>

\* lines 472-478: the invoker may unarchive (ArchiveMode(None) raises)
may_unarchive(mode, author_is_owner, author_is_counselor) ==
    /\ mode \in ArchiveMode
    /\ ~((mode = "manual" /\ ~author_is_owner) \/ ~author_is_counselor)
    /\ ~(mode = "inactive" /\ ~author_is_counselor)

\* pit unarchive
pit_unarchive(c, author_is_owner, author_is_counselor) ==
    /\ events < MaxEvents
    /\ events' = events + 1
    /\ UNCHANGED <<guild_members, loop_object>>
    /\ get_channel(channels, c)
    /\ HasRow(c)
    /\ pits[RowOf(pits, c)].pit_owner \in guild_members
    /\ pits[RowOf(pits, c)].archive_mode \in ArchiveMode
    /\ IF may_unarchive(pits[RowOf(pits, c)].archive_mode, author_is_owner,
                        author_is_counselor)
       THEN /\ channels' = [channels EXCEPT ![c].category = "pit"]
            /\ pits' = [pits EXCEPT ![RowOf(pits, c)].archive_mode = NULL]
            /\ reply' = "Un-archived"
       ELSE \* lines 475-478: raise ActionNotExecutable
            /\ UNCHANGED <<channels, pits>>
            /\ reply' = "ActionNotExecutable"
    /\ UNCHANGED <<now, archive_category, pc, locals, shortened, wakeAt, passes, log>>

\* lines 495-502: the UPDATE, then auto_archival.restart()
set_duration(c, duration) ==
    /\ events' = events + 1
    /\ UNCHANGED <<guild_members, reply>>
    /\ get_channel(channels, c)
    /\ pits' = IF HasRow(c)
               THEN [pits EXCEPT ![RowOf(pits, c)].archive_duration = duration]
               ELSE pits
    /\ shortened' =
          IF /\ pc = "waiting"
             /\ shortest[1].pit_id = c
             /\ HasRow(c)
             /\ now < candidate_date(shortest[1], channels) + shortest[1].archive_duration
             /\ candidate_date(shortest[1], channels) + duration <= now
          THEN Some([pit_id |-> c, events |-> events', passes |-> passes])
          ELSE shortened
    /\ Restart
    /\ UNCHANGED <<now, channels, archive_category, locals, wakeAt, passes, log>>

\* pit setduration, run in channel c
pit_set_duration(c, duration) ==
    /\ events < MaxEvents
    /\ set_duration(c, duration)

\* ---------------------------------------------------------- the listeners
\* self.no_auto: NO_AUTO_FEATURES is not set in the deployment modelled
no_auto == FALSE

\* on_member_remove: the leaving member's pit is archived as 'leave'
pit_auto_archive_on_member_remove(member) ==
    /\ events < MaxEvents
    /\ events' = events + 1
    /\ member \in guild_members
    /\ guild_members' = guild_members \ {member}
    /\ IF /\ ~no_auto
          /\ Owns(member)
          /\ get_channel(channels, pits[RowOfOwner(pits, member)].pit_id)
          /\ archive_category
       THEN \E forbidden \in BOOLEAN :
               IF forbidden
               THEN UNCHANGED <<pits, channels>>
               ELSE LET i == RowOfOwner(pits, member) IN
                    /\ channels' = [channels EXCEPT ![pits[i].pit_id].category = "archive"]
                    /\ pits' = [pits EXCEPT ![i].archive_mode = "leave"]
       ELSE UNCHANGED <<pits, channels>>
    /\ UNCHANGED <<now, archive_category, pc, locals, shortened, wakeAt, passes,
                   loop_object, reply, log>>

\* on_member_join: the pit of a member who left and rejoins is unarchived
pit_auto_unarchive_on_member_join(member) ==
    /\ events < MaxEvents
    /\ events' = events + 1
    /\ member \notin guild_members
    /\ guild_members' = guild_members \cup {member}
    /\ IF /\ ~no_auto
          /\ Owns(member)
          /\ pits[RowOfOwner(pits, member)].archive_mode = "leave"
          /\ get_channel(channels, pits[RowOfOwner(pits, member)].pit_id)
       THEN \E forbidden \in BOOLEAN :
               IF forbidden
               THEN UNCHANGED <<pits, channels>>
               ELSE LET i == RowOfOwner(pits, member) IN
                    /\ channels' = [channels EXCEPT ![pits[i].pit_id].category = "pit"]
                    /\ pits' = [pits EXCEPT ![i].archive_mode = NULL]
       ELSE UNCHANGED <<pits, channels>>
    /\ UNCHANGED <<now, archive_category, pc, locals, shortened, wakeAt, passes,
                   loop_object, reply, log>>

\* -------------------------------------------------------- the environment
\* a channel is deleted on Discord, outside the bot
ChannelDeleted(c) ==
    /\ events < MaxEvents
    /\ events' = events + 1
    /\ UNCHANGED <<guild_members, loop_object>>
    /\ UNCHANGED reply
    /\ get_channel(channels, c)
    /\ channels' = [channels EXCEPT ![c].category = "deleted"]
    /\ UNCHANGED <<now, pits, archive_category, pc, locals, shortened, wakeAt, passes, log>>

\* the archive category is deleted on Discord: its channels lose their category
ArchiveCategoryDeleted ==
    /\ events < MaxEvents
    /\ events' = events + 1
    /\ UNCHANGED <<guild_members, loop_object>>
    /\ UNCHANGED reply
    /\ archive_category
    /\ archive_category' = FALSE
    /\ channels' = [c \in ChannelIds |->
                      IF channels[c].category = "archive"
                      THEN [channels[c] EXCEPT !.category = "none"]
                      ELSE channels[c]]
    /\ UNCHANGED <<now, pits, pc, locals, shortened, wakeAt,
                   passes, log>>

\* a message is sent in channel c; no listener of the cog writes it to the
\* table
MessageSent(c) ==
    /\ events < MaxEvents
    /\ events' = events + 1
    /\ get_channel(channels, c)
    /\ channels' = [channels EXCEPT ![c].last_message = Some(now)]
    /\ UNCHANGED <<now, pits, archive_category, pc, locals, shortened, wakeAt, passes,
                   guild_members, loop_object, reply, log>>

\* the first delay of the loop's ExponentialBackoff lies between 0 and 2 s
ReconnectDelays == 0..2

\* a store call raised inside the loop body, where nothing catches it:
\* tasks.loop sleeps and runs the body again after an OSError or an
\* asyncio.TimeoutError, and ends the task after any other exception
\* (asyncpg.PostgresError, asyncpg.InterfaceError)
StoreCallRaised(retried) ==
    /\ ClearLocals
    /\ IF retried
       THEN /\ pc' = "interval"
            /\ \E d \in ReconnectDelays : wakeAt' = now + d
            /\ UNCHANGED loops
       ELSE /\ pc' = "failed"
            /\ wakeAt' = 0
            /\ loops' = loops - 1
    /\ UNCHANGED <<now, pits, channels, archive_category, shortened,
                   guild_members, restarts, reply, log>>

\* line 69: the SELECT raises
SelectFails(retried) ==
    /\ events < MaxEvents
    /\ events' = events + 1
    /\ pc = "start"
    /\ passes < MaxPasses
    /\ passes' = passes + 1
    /\ StoreCallRaised(retried)

\* line 115: the DELETE raises after the record loop
DeleteFails(retried) ==
    /\ events < MaxEvents
    /\ events' = events + 1
    /\ pc = "fetched"
    /\ archive_category
    /\ UNCHANGED passes
    /\ StoreCallRaised(retried)

TimerPending == pc \in {"backoff", "waiting", "interval"}

\* an instant in the middle of a sleep at which the environment acts
Instants == {T0 + TWENTY_FOUR_HOURS + NearOffset}

\* time passes while the task sleeps, up to the instant the timer is set for
Tick ==
    /\ UNCHANGED <<events, guild_members, loop_object, reply>>
    /\ TimerPending
    /\ \E t \in Instants \cup {wakeAt} :
          /\ t > now
          /\ t <= wakeAt
          /\ now' = t
    /\ UNCHANGED <<pits, channels, archive_category, pc, locals, shortened,
                   wakeAt, passes, log>>

\* ------------------------------------------------------------------- Init
PastNear == Some(T0 - TWENTY_FOUR_HOURS + NearOffset)
PastFar == Some(T0 - TWENTY_FOUR_HOURS + FarOffset)
FutureNear == Some(T0 + NearOffset)
FutureFar == Some(T0 + FarOffset)
Overdue == Some(T0 - ONE_WEEK)

CreatedAt0 == T0 - ONE_MONTH

Unused == << <<>>, Channel("unused", None, 0) >>

\* a channel of the pit category that has no row
Plain == << <<>>, Channel("pit", None, CreatedAt0) >>

\* an active pit: its row and its channel in the pit category
Active(c, duration, lmsa) ==
    << <<Row(c, c, duration, NULL, lmsa)>>, Channel("pit", None, CreatedAt0) >>

\* a pit archived by pit archive
Archived(c, lmsa) ==
    << <<Row(c, c, THREE_DAYS, "manual", lmsa)>>, Channel("archive", None, CreatedAt0) >>

\* a pit archived by pit archive whose channel was then deleted and whose
\* owner got a new channel from pit create: the row keeps its archive_mode
\* with the new pit_id
Repointed(c, lmsa) ==
    << <<Row(c, c, THREE_DAYS, "manual", lmsa)>>, Channel("pit", None, CreatedAt0) >>

\* a pit archived by the member-leave listener: its owner is not in the guild
Left(c, lmsa) ==
    << <<Row(c, c, THREE_DAYS, "leave", lmsa)>>, Channel("archive", None, CreatedAt0) >>

\* a pit whose channel was deleted on Discord: the row is still in the table
Orphan(c, lmsa) ==
    << <<Row(c, c, THREE_DAYS, NULL, lmsa)>>, Channel("deleted", None, CreatedAt0) >>

\* what the table and the guild hold for channel id c when the cog is
\* constructed: <<rows, channel>>; ids above 2 are free for pit create
InitSlots(c) ==
    IF c = 1 /\ c \in Members
    THEN {Unused, Plain, Active(c, TWENTY_FOUR_HOURS, PastNear),
          Active(c, THREE_DAYS, FutureNear), Active(c, THREE_DAYS, None),
          Archived(c, FutureNear), Repointed(c, FutureNear), Orphan(c, FutureNear)}
    ELSE IF c = 2 /\ c \in Members
    THEN {Unused, Active(c, TWENTY_FOUR_HOURS, PastFar),
          Active(c, TWENTY_FOUR_HOURS, FutureFar), Active(c, THREE_DAYS, FutureNear),
          Active(c, TWENTY_FOUR_HOURS, Overdue), Left(c, FutureFar)}
    ELSE {Unused}

RECURSIVE Concat(_, _)
Concat(f, n) == IF n = 0 THEN <<>> ELSE Concat(f, n - 1) \o f[n][1]

Init ==
    /\ now = T0
    /\ \E slots \in [ChannelIds -> UNION {InitSlots(c) : c \in ChannelIds}] :
          /\ \A c \in ChannelIds : slots[c] \in InitSlots(c)
          /\ pits = Concat(slots, MaxChannels)
          /\ channels = [c \in ChannelIds |-> slots[c][2]]
    /\ archive_category = TRUE
    /\ pc = "start"
    /\ NOW = 0
    /\ records = <<>>
    /\ shortest = None
    /\ pit_ids_to_invalidate = <<>>
    /\ scanned = None
    /\ prev = None
    /\ shortened = None
    /\ wakeAt = 0
    /\ passes = 0
    /\ events = 0
    /\ guild_members = {m \in Members :
                           \A i \in DOMAIN pits :
                              pits[i].pit_owner = m => pits[i].archive_mode # "leave"}
    /\ loops = 1
    /\ restarts = 0
    /\ reply = ""
    /\ log = <<>>

Next ==
    \/ Fetch
    \/ Scan
    \/ Decide
    \/ BackoffDone
    \/ Fire
    \/ IntervalDone
    \/ Cancelled
    \/ \E m \in Members : pit_create(m)
    \/ \E c \in ChannelIds, m \in Members : pit_set_owner(c, m)
    \/ \E c \in ChannelIds : pit_delete(c)
    \/ \E c \in ChannelIds : pit_archive(c)
    \/ \E c \in ChannelIds, o \in BOOLEAN, k \in BOOLEAN : pit_unarchive(c, o, k)
    \/ \E c \in ChannelIds, d \in ArchiveDuration : pit_set_duration(c, d)
    \/ \E m \in Members : pit_auto_archive_on_member_remove(m)
    \/ \E m \in Members : pit_auto_unarchive_on_member_join(m)
    \/ \E c \in ChannelIds : ChannelDeleted(c)
    \/ ArchiveCategoryDeleted
    \/ Tick

Spec == Init /\ [][Next]_vars

\* pit setduration, run up to MaxRestarts times
pit_set_duration_repeated(c, duration) ==
    /\ events < MaxRestarts
    /\ set_duration(c, duration)

\* the loop under pit setduration alone
NextRestarts ==
    \/ Fetch
    \/ Scan
    \/ Decide
    \/ BackoffDone
    \/ Fire
    \/ IntervalDone
    \/ Cancelled
    \/ \E c \in ChannelIds, d \in ArchiveDuration : pit_set_duration_repeated(c, d)
    \/ Tick

SpecRestarts == Init /\ [][NextRestarts]_vars

\* the loop with failing store calls and messages sent in the channels
NextEnv ==
    \/ Fetch
    \/ Scan
    \/ Decide
    \/ BackoffDone
    \/ Fire
    \/ IntervalDone
    \/ \E retried \in BOOLEAN : SelectFails(retried)
    \/ \E retried \in BOOLEAN : DeleteFails(retried)
    \/ \E c \in ChannelIds : MessageSent(c)
    \/ Tick

SpecEnv == Init /\ [][NextEnv]_vars

TypeOK ==
    /\ pc \in {"start", "fetched", "pruned", "backoff", "waiting", "interval",
              "cancelling", "failed"}
    /\ loops \in 0..1
    /\ restarts \in Nat
    /\ guild_members \subseteq Members
    /\ passes \in 0..MaxPasses
    /\ events \in Nat

\* ------------------------------------------------- the specification's terms
\* a record the specification calls valid: active and its channel resolves
SpecValid(row, chans) ==
    /\ row.archive_mode = NULL
    /\ get_channel(chans, row.pit_id)

\* the last activity the specification resolves a deadline from
ResolvedActivity(row, chans) ==
    IF row.last_message_sent_at # None THEN row.last_message_sent_at[1]
    ELSE IF chans[row.pit_id].last_message # None
         THEN chans[row.pit_id].last_message[1]
         ELSE chans[row.pit_id].created_at

\* the deadline of the specification: last activity + archive_duration
ResolvedDeadline(row, chans) ==
    ResolvedActivity(row, chans) + row.archive_duration

\* the step in which a pass runs its record loop and its DELETE
ScanStep == pc = "fetched" /\ pc' = "pruned"

\* a step of the task itself, not of a command that restarts it
TaskStep == events' = events

\* ------------------------------------------------------------------ claims

\* the pending archival targets a record of the store that is valid and of
\* the soonest deadline among the valid records currently in the store
TargetIsSoonest(target, rows, chans) ==
    /\ target # None
    /\ target[1].pit_id \in RowIds(rows)
    /\ LET cur == rows[RowOf(rows, target[1].pit_id)] IN
       /\ SpecValid(cur, chans)
       /\ \A i \in DOMAIN rows :
             SpecValid(rows[i], chans) =>
                ResolvedDeadline(cur, chans) <= ResolvedDeadline(rows[i], chans)

\* C1: while the loop sleeps toward a target that is the valid record of the
\* soonest deadline in the store, it still is after any step (a pit created,
\* re-owned, deleted, archived, unarchived) that leaves the loop sleeping.
C1_TargetIsSoonest ==
    [][(pc = "waiting" /\ TargetIsSoonest(shortest, pits, channels) /\ pc' = "waiting")
          => TargetIsSoonest(shortest', pits', channels')]_vars

\* C2: a selection pass that keeps a non-empty set of records as valid picks
\* as candidate the one whose resolved deadline (last activity +
\* archive_duration) is the minimum of that set.
C2_PicksMinDeadline ==
    [][ScanStep =>
          LET kept == {i \in DOMAIN records :
                          records[i].pit_id \notin SeqToSet(pit_ids_to_invalidate')} IN
          kept # {} =>
             /\ shortest' # None
             /\ \E i \in kept :
                   /\ shortest'[1] = records[i]
                   /\ \A j \in kept :
                         ResolvedDeadline(records[i], channels)
                            <= ResolvedDeadline(records[j], channels)]_vars

\* C3: a record whose archive_mode is not NULL is never the candidate of a
\* pass, and the task never edits the channel of such a record.
C3_ArchivedNeverCandidate ==
    [][/\ (pc' \in {"pruned", "waiting"} /\ shortest' # None)
             => shortest'[1].archive_mode = NULL
       /\ (pc = "waiting" /\ TaskStep /\ channels' # channels)
             => \A i \in DOMAIN pits :
                   pits[i].pit_id = shortest[1].pit_id => pits[i].archive_mode = NULL]_vars

\* C4: a pass never deletes a record whose archive_mode is not NULL and
\* whose channel exists.
C4_ArchivedNeverPruned ==
    [][ScanStep =>
          \A i \in DOMAIN pits :
             (pits[i].archive_mode # NULL /\ get_channel(channels, pits[i].pit_id))
                => pits[i].pit_id \in RowIds(pits')]_vars

\* C5: a record whose pit_id resolves to no channel is deleted by the pass
\* whose record loop visits it and is not that pass's candidate; a pass that
\* got past its record loop without a candidate does not raise.
C5_MissingChannelPruned ==
    [][/\ ScanStep =>
             \A i \in DOMAIN records :
                ~get_channel(channels, records[i].pit_id) =>
                   /\ records[i].pit_id \notin RowIds(pits')
                   /\ shortest' # Some(records[i])
       /\ (pc = "pruned" /\ shortest = None /\ TaskStep /\ pc' # pc)
             => pc' = "backoff"]_vars

\* C5 witness: the only record of the table had a future last_message_sent_at
\* and no channel; the pass deleted it and went on to its back-off.
C5_Witness ==
    /\ pc = "backoff"
    /\ Len(records) = 1
    /\ records[1].archive_mode = NULL
    /\ records[1].last_message_sent_at # None
    /\ records[1].last_message_sent_at[1] > NOW
    /\ ~get_channel(channels, records[1].pit_id)
    /\ pit_ids_to_invalidate = <<records[1].pit_id>>
    /\ pits = <<>>

\* C6: an active record whose last_message_sent_at is NULL and whose channel
\* is in the pit category is not invalidated by the pass, and when it is the
\* candidate the sleep is computed from the channel's latest message (else
\* its creation) plus archive_duration.
C6_NullDateKept ==
    [][/\ ScanStep =>
             \A i \in DOMAIN records :
                (/\ records[i].last_message_sent_at = None
                 /\ records[i].archive_mode = NULL
                 /\ channels[records[i].pit_id].category = "pit")
                   => /\ records[i].pit_id \notin SeqToSet(pit_ids_to_invalidate')
                      /\ records[i].pit_id \in RowIds(pits) => records[i].pit_id \in RowIds(pits')
       /\ (pc = "pruned" /\ pc' = "waiting" /\ shortest[1].last_message_sent_at = None)
             => wakeAt' = SleepUntil(now, ResolvedDeadline(shortest[1], channels) - NOW)]_vars

\* C7: after pit setduration moved the deadline of the pit the loop was
\* sleeping toward into the past, the next pass has that pit as candidate
\* and sleeps 0 before firing on it.
C7_ShortenedFiresAtOnce ==
    (/\ shortened # None
     /\ events = shortened[1].events
     /\ passes = shortened[1].passes + 1
     /\ pc \in {"pruned", "waiting", "backoff"})
        => /\ pc # "backoff"
           /\ shortest # None
           /\ shortest[1].pit_id = shortened[1].pit_id
           /\ pc = "waiting" => wakeAt = now

\* C8: a pass without a candidate sleeps exactly 60 seconds, a sleep that
\* can always run out; when it has run out the task goes on, with no further
\* delay, to another selection pass.
C8_BackoffThenSelect ==
    [][/\ (pc = "pruned" /\ shortest = None /\ TaskStep /\ pc' # pc)
             => (pc' = "backoff" /\ wakeAt' = now + 60)
       /\ pc = "backoff"
             => (IF now < wakeAt THEN ENABLED Tick ELSE ENABLED BackoffDone)
       /\ (pc = "backoff" /\ TaskStep /\ pc' # pc)
             => (now >= wakeAt /\ pc' = "interval" /\ wakeAt' = now)
       /\ (pc = "interval" /\ TaskStep /\ pc' # pc)
             => pc' = "start"]_vars

\* C8 witness: the first pass found no candidate and, 60 seconds after it
\* started, the second pass has read the table.
C8_Witness ==
    /\ pc = "fetched"
    /\ passes = 2
    /\ events = 0
    /\ NOW = T0 + 60
    /\ prev # None
    /\ prev[1].shortest = None
    /\ prev[1].NOW = T0

\* the first pass met records A (deadline NOW + NearOffset) and B (deadline
\* NOW + FarOffset), both valid
ScenarioAB(recs, chans, N) ==
    /\ Len(recs) = 2
    /\ \E a \in 1..2, b \in 1..2 :
          /\ a # b
          /\ SpecValid(recs[a], chans)
          /\ SpecValid(recs[b], chans)
          /\ ResolvedDeadline(recs[a], chans) = N + NearOffset
          /\ ResolvedDeadline(recs[b], chans) = N + FarOffset

\* C9: with valid records A (deadline now+5s) and B (deadline now+50s) the
\* pass selects A and sleeps 5s; the task then edits A's channel and the
\* next pass selects B.
C9_ScenarioAB ==
    /\ (/\ passes = 1 /\ events = 0
        /\ pc \in {"pruned", "waiting", "backoff"}
        /\ ScenarioAB(records, channels, NOW))
          => /\ pc # "backoff"
             /\ shortest # None
             /\ ResolvedDeadline(shortest[1], channels) = NOW + NearOffset
             /\ pc = "waiting" => wakeAt = NOW + NearOffset
    /\ (/\ passes = 2 /\ events = 0
        /\ pc \in {"pruned", "waiting", "backoff"}
        /\ prev # None
        /\ ScenarioAB(prev[1].store, channels, prev[1].NOW))
          => /\ Len(log) = 1
             /\ log[1][2] = prev[1].shortest[1].pit_id
             /\ shortest # None
             /\ ResolvedDeadline(shortest[1], channels) = prev[1].NOW + FarOffset

\* C10: a selection pass that reads the table as the previous selection pass
\* left it, with the channels and the clock as that pass saw them and no
\* firing in between, selects the same candidate and invalidates nothing.
C10_SelectIdempotent ==
    [][(/\ ScanStep
        /\ prev # None
        /\ records = prev[1].store
        /\ channels = prev[1].channels
        /\ NOW = prev[1].NOW
        /\ log = prev[1].log)
          => /\ shortest' = prev[1].shortest
             /\ pit_ids_to_invalidate' = <<>>]_vars

\* C10 witness: the previous pass invalidated a record and selected a
\* candidate; this pass, with nothing changed, selected it again and
\* invalidated nothing.
C10_Witness ==
    /\ pc = "pruned"
    /\ prev # None
    /\ prev[1].invalidated # <<>>
    /\ prev[1].shortest # None
    /\ records = prev[1].store
    /\ scanned[1].channels = prev[1].channels
    /\ NOW = prev[1].NOW
    /\ log = prev[1].log
    /\ shortest = prev[1].shortest
    /\ pit_ids_to_invalidate = <<>>

\* a step changed the archive_duration or the archive_mode of a record that
\* is in the store before and after it
ConfigChanged ==
    \E i \in DOMAIN pits, j \in DOMAIN pits' :
       /\ pits[i].pit_id = pits'[j].pit_id
       /\ \/ pits[i].archive_duration # pits'[j].archive_duration
          \/ pits[i].archive_mode # pits'[j].archive_mode

\* the step called auto_archival.restart() on the running loop
Restarted == pc' = "cancelling" /\ restarts' = restarts + 1

\* C11: a step of a command or listener that changes a record's
\* archive_duration or archive_mode while the loop runs also restarts the
\* loop.
C11_ConfigChangeRestarts ==
    [][(ConfigChanged /\ loops = 1) => Restarted]_vars

Unique(rows) ==
    \A i, j \in DOMAIN rows :
       i # j => /\ rows[i].pit_id # rows[j].pit_id
                /\ rows[i].pit_owner # rows[j].pit_owner

\* C13: every step (a command, a listener, a step of the pass) leaves the
\* table with pairwise distinct pit_ids and pairwise distinct pit_owners, and
\* pit setowner naming a member who owns another pit is refused with the
\* table unchanged.
C13_UniqueIdsAndOwners ==
    [][/\ Unique(pits) /\ Unique(pits')
       /\ \A c \in ChannelIds, m \in Members :
             (/\ pit_set_owner(c, m)
              /\ Owns(m)
              /\ pits[RowOfOwner(pits, m)].pit_id # c)
                => /\ pits' = pits
                   /\ reply' = "This user is already the owner of a pit."]_vars

\* C13 witness: pit setowner named the owner of the other pit and was
\* refused; the table still holds the two rows.
C13_Witness ==
    /\ reply = "This user is already the owner of a pit."
    /\ events = 1
    /\ Len(pits) = 2
    /\ Unique(pits)

\* C14: a step removes a pit_id from the table only when, after the step,
\* that pit_id resolves to no channel (the channel was deleted before, or pit
\* delete deleted it); a record whose channel exists survives every pass.
C14_DeletedOnlyWhenGone ==
    [][\A i \in DOMAIN pits :
          pits[i].pit_id \notin RowIds(pits')
             => ~get_channel(channels', pits[i].pit_id)]_vars

\* the firing step edited the channel of pit id with success
FiredOn(id) ==
    /\ pc = "waiting"
    /\ TaskStep
    /\ log' = Append(log, <<"info", id>>)

\* C15: when the firing step succeeds the pit's channel is in the archive
\* category and the pit's row in the store has archive_mode 'automatic'.
C15_FiringPersistsAutomatic ==
    [][\A id \in ChannelIds :
          FiredOn(id) =>
             /\ in_archive(channels', id)
             /\ \A i \in DOMAIN pits' :
                   pits'[i].pit_id = id => pits'[i].archive_mode = "automatic"]_vars

\* C16: when the sleep toward the candidate is over and the archive category
\* exists, the firing step ends the pass and leads to the interval before the
\* next pass whether the edit succeeds, is forbidden or finds the channel
\* gone; an edit that did not archive the channel is reported in the log.
C16_FailedEditMovesOn ==
    [][(pc = "waiting" /\ TaskStep /\ pc' # pc /\ archive_category) =>
          /\ pc' = "interval"
          /\ loops' = 1
          /\ ~in_archive(channels', shortest[1].pit_id)
                => log' = Append(log, <<"warn", shortest[1].pit_id>>)]_vars

\* C17: an active record with a channel in the pit category and a stored
\* last_message_sent_at whose deadline (last_message_sent_at +
\* archive_duration) is not after the pass's NOW is not invalidated by the
\* pass, and a pass whose candidate has such a deadline sleeps 0 before it
\* fires.
C17_PastDeadlineHonored ==
    [][/\ ScanStep =>
             \A i \in DOMAIN records :
                (/\ records[i].archive_mode = NULL
                 /\ channels[records[i].pit_id].category = "pit"
                 /\ records[i].last_message_sent_at # None
                 /\ ResolvedDeadline(records[i], channels) <= NOW)
                   => /\ records[i].pit_id \notin SeqToSet(pit_ids_to_invalidate')
                      /\ shortest' # None
       /\ (/\ pc = "pruned" /\ pc' = "waiting"
           /\ ResolvedDeadline(shortest[1], channels) <= NOW)
             => wakeAt' = now]_vars

Max0(x) == IF x < 0 THEN 0 ELSE x

\* C18: a pass that has a candidate whose channel resolves goes to sleep
\* toward it for max(0, last_message_sent_at + archive_duration - NOW)
\* seconds, NOW being the time the pass read at its start, and the firing
\* step runs only when that sleep is over.
C18_SleepFormula ==
    [][/\ (/\ pc = "pruned" /\ shortest # None /\ TaskStep /\ pc' # pc
           /\ get_channel(channels, shortest[1].pit_id))
             => /\ pc' = "waiting"
                /\ shortest[1].last_message_sent_at # None
                /\ wakeAt' = now + Max0(shortest[1].last_message_sent_at[1]
                                          + shortest[1].archive_duration - NOW)
       /\ (pc = "waiting" /\ TaskStep /\ pc' # pc) => now >= wakeAt]_vars

\* C18 witness: the pass read NOW = T0, its candidate has last message
\* T0 + NearOffset and three days of archive_duration, and the task sleeps
\* until T0 + NearOffset + THREE_DAYS.
C18_Witness ==
    /\ pc = "waiting"
    /\ NOW = T0
    /\ shortest # None
    /\ shortest[1].last_message_sent_at = FutureNear
    /\ shortest[1].archive_duration = THREE_DAYS
    /\ wakeAt = T0 + NearOffset + THREE_DAYS
    /\ now < wakeAt

\* C19: pit setduration run while the task sleeps toward its candidate
\* cancels the task without touching a channel; the cancelled task can no
\* longer fire and its sleep no longer runs, its only step is to end, which
\* edits no channel and writes no log line; the next step of the scheduler
\* is the SELECT of a new pass.
C19_RestartCancelsSleep ==
    [][/\ (pc = "waiting"
           /\ \E c \in ChannelIds, d \in ArchiveDuration : pit_set_duration(c, d))
             => (pc' = "cancelling" /\ channels' = channels /\ log' = log)
       /\ pc = "cancelling" => (ENABLED Cancelled /\ ~ENABLED Fire /\ ~ENABLED Tick)
       /\ (pc = "cancelling" /\ TaskStep /\ pc' # pc)
             => /\ pc' = "start"
                /\ channels' = channels
                /\ log' = log
                /\ wakeAt' = 0
                /\ shortest' = None
       /\ (pc = "start" /\ TaskStep /\ pc' # pc)
             => (pc' = "fetched" /\ NOW' = now /\ records' = pits)]_vars

\* C19 witness: the task was cancelled while it slept toward a candidate
\* whose deadline had not come; the candidate's channel is still in the pit
\* category, nothing was logged, and the loop is at the start of a new pass.
C19_Witness ==
    /\ pc = "start"
    /\ prev # None
    /\ prev[1].pc = "cancelling"
    /\ prev[1].shortest # None
    /\ prev[1].wakeAt > now
    /\ channels[prev[1].shortest[1].pit_id].category = "pit"
    /\ log = <<>>
    /\ wakeAt = 0
    /\ loops = 1

\* the ids of the records the record loop of lines 83-89 finds invalid
FoundInvalid(recs, chans, N) ==
    {recs[i].pit_id : i \in {k \in DOMAIN recs : Invalid(recs[k], chans, N)}}

\* C20: the step of a pass that runs the record loop leaves no row in the
\* table for any record it found invalid, with or without a candidate, and
\* the pass reaches its back-off, its sleep toward the candidate or its end
\* only after that step.
C20_PrunesEveryPass ==
    [][/\ ScanStep =>
             /\ SeqToSet(pit_ids_to_invalidate') = FoundInvalid(records, channels, NOW)
             /\ RowIds(pits') \cap FoundInvalid(records, channels, NOW) = {}
       /\ (TaskStep /\ pc' # pc /\ pc' \in {"backoff", "waiting"}) => pc = "pruned"
       /\ (TaskStep /\ pc' # pc /\ pc' = "interval")
             => pc \in {"pruned", "backoff", "waiting"}]_vars

\* C20 witness: a pass found one of two records invalid and the other its
\* candidate; the invalid one is gone from the table while the task sleeps
\* toward the candidate.
C20_Witness ==
    /\ pc = "waiting"
    /\ Len(records) = 2
    /\ Len(pit_ids_to_invalidate) = 1
    /\ shortest # None
    /\ pit_ids_to_invalidate[1] \notin RowIds(pits)
    /\ shortest[1].pit_id \in RowIds(pits)

\* a pass without a candidate found both records invalid; both are gone from
\* the table while the task backs off
C20_WitnessNoCandidate ==
    /\ pc = "backoff"
    /\ Len(records) = 2
    /\ Len(pit_ids_to_invalidate) = 2
    /\ pits = <<>>

\* the previous pass slept toward pit id and its edit was forbidden: the warn
\* line is the last of the log
ForbiddenLast(id) ==
    /\ prev # None
    /\ prev[1].pc = "waiting"
    /\ prev[1].shortest # None
    /\ prev[1].shortest[1].pit_id = id
    /\ log = Append(prev[1].log, <<"warn", id>>)

\* C21: a firing step whose edit is forbidden leaves the table as it is, and
\* the next selection pass does not invalidate the record of that pit when
\* it is still active with its channel in the pit category: the record is
\* that pass's candidate or loses only to another candidate.
C21_ForbiddenRetried ==
    [][/\ \A id \in ChannelIds :
             (pc = "waiting" /\ TaskStep /\ log' = Append(log, <<"warn", id>>))
                => pits' = pits
       /\ \A id \in ChannelIds :
             (/\ ScanStep
              /\ ForbiddenLast(id)
              /\ \E i \in DOMAIN records :
                    /\ records[i].pit_id = id
                    /\ records[i].archive_mode = NULL
                    /\ channels[id].category = "pit")
                => /\ id \notin SeqToSet(pit_ids_to_invalidate')
                   /\ id \in RowIds(pits')
                   /\ shortest' # None]_vars

\* C22: when the SELECT or the DELETE of a pass fails the pass ends without
\* firing, the task stays launched and waits on a timer, and its next step
\* is the start of a new selection pass.
C22_StoreErrorBacksOff ==
    [][/\ (\E retried \in BOOLEAN : SelectFails(retried) \/ DeleteFails(retried))
             => /\ pc' = "interval"
                /\ loops' = 1
                /\ wakeAt' >= now
                /\ shortest' = None
                /\ channels' = channels
       /\ (pc = "interval" /\ TaskStep /\ pc' # pc) => pc' = "start"]_vars

\* C23: the loop never reaches a state from which no selection pass can
\* start: the task is launched and is at one of the steps of a pass or of a
\* wait, also after a pass that did not find the archive category.
C23_NoTerminalState ==
    /\ loops = 1
    /\ pc \in {"start", "fetched", "pruned", "backoff", "waiting", "interval", "cancelling"}

\* the scheduler archived pit id with success at some earlier firing
ArchivedByTask(id) == <<"info", id>> \in SeqToSet(log)

\* C24: once the scheduler has archived a pit with success, a selection pass
\* that finds its channel still in the archive category does not select it,
\* and a second firing on it happens only after a pass that found the
\* channel back in the pit category.
C24_ArchivedNotReselected ==
    [][\A id \in ChannelIds :
          ArchivedByTask(id) =>
             /\ (ScanStep /\ get_channel(channels, id) /\ in_archive(channels, id))
                   => (shortest' = None \/ shortest'[1].pit_id # id)
             /\ FiredOn(id)
                   => /\ scanned # None
                      /\ scanned[1].channels[id].category = "pit"]_vars

C24_Witness ==
    \E id \in ChannelIds :
       /\ ArchivedByTask(id)
       /\ pc = "pruned"
       /\ passes >= 2
       /\ get_channel(channels, id) /\ in_archive(channels, id)
       /\ id \in SeqToSet(pit_ids_to_invalidate)

\* the records in the order given by the permutation p of their positions
Reordered(recs, p) == [i \in DOMAIN recs |-> recs[p[i]]]

\* two records the pass keeps have the same deadline
TiedDeadlines(recs, chans, N) ==
    \E i, j \in DOMAIN recs :
       /\ i # j
       /\ ~Invalid(recs[i], chans, N) /\ ~Invalid(recs[j], chans, N)
       /\ ResolvedDeadline(recs[i], chans) = ResolvedDeadline(recs[j], chans)

\* C25: when two records kept by a pass have identical deadlines, the record
\* loop ends with the same candidate for every order of the fetched records.
C25_TieOrderIndependent ==
    [][(ScanStep /\ TiedDeadlines(records, channels, NOW))
          => \A p \in Permutations(DOMAIN records) :
                ScanLoop(Reordered(records, p), channels, NOW, None, <<>>).shortest
                   = shortest']_vars

\* pit unarchive acted on channel c and un-archived it
Unarchived(c) ==
    /\ reply' = "Un-archived"
    /\ channels'[c].category = "pit"
    /\ pits'[RowOf(pits, c)].archive_mode = NULL

\* pit unarchive raised ActionNotExecutable and changed nothing
UnarchiveRefused ==
    /\ reply' = "ActionNotExecutable"
    /\ channels' = channels
    /\ pits' = pits

\* C26: pit unarchive on a manually archived pit un-archives it when the
\* invoker is the pit owner or a counselor and is refused with
\* ActionNotExecutable only when the invoker is neither; on a pit archived
\* as inactive it un-archives only for a counselor.
C26_UnarchivePermissions ==
    [][\A c \in ChannelIds : \A author_is_owner, author_is_counselor \in BOOLEAN :
          pit_unarchive(c, author_is_owner, author_is_counselor) =>
             /\ pits[RowOf(pits, c)].archive_mode = "manual" =>
                   IF author_is_owner \/ author_is_counselor
                   THEN Unarchived(c) ELSE UnarchiveRefused
             /\ pits[RowOf(pits, c)].archive_mode = "inactive" =>
                   IF author_is_counselor
                   THEN Unarchived(c) ELSE UnarchiveRefused]_vars

\* C27: the firing step archives a pit only when at least the pit's
\* archive_duration has elapsed since the most recent message in its
\* channel, also when that message was sent while the loop slept toward the
\* pit.
C27_FiresAfterLatestMessage ==
    [][\A id \in ChannelIds :
          (FiredOn(id) /\ HasRow(id) /\ channels[id].last_message # None)
             => now >= channels[id].last_message[1]
                         + pits[RowOf(pits, id)].archive_duration]_vars

\* C28: the firing step never edits a channel that is in the archive
\* category when it runs, as after a pit archive on the target pit during
\* the sleep: it logs no edit of it and leaves the channel as it is.
C28_NoEditOfArchived ==
    [][\A id \in ChannelIds :
          (/\ pc = "waiting" /\ TaskStep /\ pc' # pc
           /\ shortest # None /\ shortest[1].pit_id = id
           /\ get_channel(channels, id) /\ in_archive(channels, id))
             => /\ log' = log
                /\ channels' = channels]_vars

\* the on_member_join listener ran for the member
Joined(member) == member \notin guild_members /\ member \in guild_members'

\* C29: a pit archived with archive_mode 'leave' is moved back to the pit
\* category with archive_mode NULL when its owner rejoins, however many
\* selection passes ran since the owner left: no pass removes the 'leave'
\* row of an existing channel, and the join of the owner of such a row
\* restores the pit (or changes nothing when Discord forbids the edit).
C29_LeaveRestoredOnRejoin ==
    [][\A i \in DOMAIN pits :
          (pits[i].archive_mode = "leave" /\ get_channel(channels, pits[i].pit_id))
             => /\ ScanStep => pits[i].pit_id \in RowIds(pits')
                /\ Joined(pits[i].pit_owner)
                      => \/ /\ channels'[pits[i].pit_id].category = "pit"
                            /\ pits'[i].archive_mode = NULL
                         \/ /\ channels' = channels
                            /\ pits' = pits]_vars

\* C30: after pit create for an owner, the owner's record holds the id of
\* the channel just created, archive_mode NULL, archive_duration three days
\* and no last_message_sent_at, also when the owner had a record of a
\* channel that no longer exists.
C30_CreateLeavesFreshRecord ==
    [][\A owner \in Members :
          pit_create(owner) =>
             \E c \in UnusedIds :
                /\ channels'[c].category = "pit"
                /\ owner \in RowOwners(pits')
                /\ pits'[RowOfOwner(pits', owner)] = Row(c, owner, THREE_DAYS, NULL, None)]_vars

====
